---- MODULE Spec2Model ----
(***************************************************************************)
(* Model of the triangulator package: the binary codec of                  *)
(* src/triangulator/serialization.py (point sets and meshes, big-endian),  *)
(* the fan triangulation of src/triangulator/algorithm.py, the upstream    *)
(* client of src/triangulator/clients.py and the request handler of        *)
(* src/triangulator/app.py.                                                *)
(*                                                                         *)
(* A Python float is modelled by its exact value: a record                 *)
(*   [k |-> "num", s, m, e]   the number (-1)^s * m * 2^e, m odd or 0,     *)
(*   [k |-> "inf", s]         an infinity,                                 *)
(*   [k |-> "nan"]            the quiet NaN struct produces,               *)
(*   [k |-> "str"]            an object that is not a float at all.        *)
(* A bytes object is a sequence of numbers in 0..255.  A call's outcome is *)
(* a record: [ok |-> TRUE, val |-> v] for a return, and                    *)
(* [ok |-> FALSE, exc |-> class, msg |-> text] for a raised exception.     *)
(***************************************************************************)
EXTENDS Integers, Sequences, FiniteSets, TLC

VARIABLES
    pc,         \* position of the scenario: "start", "encoded", "wire", "done"
    points,     \* the point sequence handed to the encoder / the algorithm
    triangles,  \* the triangle sequence handed to the mesh encoder
    producer,   \* what built the payload: an encoder, or a test's factory
    enc,        \* outcome of the call that built the payload
    data,       \* the buffer handed to the decoder
    wire,       \* how data relates to the encoder's output
    dec,        \* outcome of the decoder call
    tri,        \* outcome of the triangulate call
    point_set_id,           \* the identifier of the request's path
    point_set_client,       \* create_app's point_set_client
    triangulation_service,  \* create_app's triangulation_service
    fetched,    \* outcome of the fetch_point_set call
    calls,      \* the collaborators the handler invoked, with their arguments
    response,   \* outcome of get_triangulation: the response it returns
    requests    \* the calls of get_triangulation in progress, by request

\* The variables of the HTTP scenarios.
requestVars ==
    << point_set_id, point_set_client, triangulation_service, fetched, calls,
       response, requests >>

vars ==
    << pc, points, triangles, producer, enc, data, wire, dec, tri,
       point_set_id, point_set_client, triangulation_service, fetched, calls,
       response, requests >>

(***************************************************************************)
(* Outcomes of a call.                                                     *)
(***************************************************************************)
Ok(v) == [ok |-> TRUE, val |-> v]

Raise(exc, msg) == [ok |-> FALSE, exc |-> exc, msg |-> msg]

NoCall == [ok |-> FALSE, exc |-> "not called", msg |-> ""]

\* No request is being handled.
NoRequest ==
    /\ point_set_id = << >>
    /\ point_set_client = [kind |-> "None"]
    /\ triangulation_service = [kind |-> "None"]
    /\ fetched = NoCall
    /\ calls = << >>
    /\ response = NoCall
    /\ requests = << >>

(***************************************************************************)
(* Sizes of the three struct formats.                                      *)
(***************************************************************************)
HEADER_SIZE == 4

POINT_SIZE == 8

TRIANGLE_SIZE == 12

(***************************************************************************)
(* Python floats.                                                          *)
(***************************************************************************)
Num(s, m, e) == [k |-> "num", s |-> s, m |-> m, e |-> e]

Inf(s) == [k |-> "inf", s |-> s]

NaN == [k |-> "nan"]

NotAFloat == [k |-> "str"]

\* The canonical record of (-1)^s * m * 2^e: trailing zero bits of m moved
\* into the exponent, zero written with exponent 0.
RECURSIVE Canon(_, _, _)
Canon(s, m, e) ==
    IF m = 0 THEN Num(s, 0, 0)
    ELSE IF m % 2 = 0 THEN Canon(s, m \div 2, e + 1)
    ELSE Num(s, m, e)

\* Number of significant bits of m > 0.
RECURSIVE BitLen(_)
BitLen(m) == IF m = 0 THEN 0 ELSE 1 + BitLen(m \div 2)

\* m / d rounded to the nearest integer, ties to even (d a power of two).
RoundHalfEven(m, d) ==
    IF 2 * (m % d) > d \/ (2 * (m % d) = d /\ (m \div d) % 2 = 1)
    THEN m \div d + 1
    ELSE m \div d

\* The exponent of the last bit of a float32 whose leading bit has exponent
\* E: 23 below it for a normal number, -149 for a subnormal.
UlpExponent(E) == IF E >= -126 THEN E - 23 ELSE -149

\* A significand that rounding carried to 2^24 is 2^23 one exponent higher.
Renormalize(M, q) ==
    IF M = 2^24 THEN [M |-> 2^23, q |-> q + 1] ELSE [M |-> M, q |-> q]

\* m * 2^e as a multiple of 2^q, rounded.
RoundAt(m, e, q) ==
    Renormalize(IF e >= q THEN m * 2^(e - q)
                ELSE IF q - e > 30 THEN 0
                ELSE RoundHalfEven(m, 2^(q - e)),
                q)

\* The C cast (float)x of PyFloat_Pack4 on a finite x = m * 2^e, m > 0:
\* the 24-bit significand M and the exponent q of its last bit, so that the
\* float is M * 2^q (M < 2^23 only for a subnormal, where q = -149).
RoundF32(m, e) == RoundAt(m, e, UlpExponent(e + BitLen(m) - 1))

\* The four big-endian bytes of a float32 with sign s, biased exponent b
\* and fraction f.
FieldBytes(s, b, f) ==
    << s * 128 + b \div 2, (b % 2) * 128 + f \div 65536,
       (f \div 256) % 256, f % 256 >>

\* The outcome of packing the rounded significand r of a finite nonzero
\* float: PyFloat_Pack4 raises OverflowError ("float too large to pack with
\* f format") when the cast produced an infinity.
PackRounded(s, r) ==
    IF r.M >= 2^23 /\ r.q + 150 >= 255 THEN Raise("OverflowError", "")
    ELSE IF r.M >= 2^23 THEN Ok(FieldBytes(s, r.q + 150, r.M - 2^23))
    ELSE Ok(FieldBytes(s, 0, r.M))

\* struct.pack(">f", v): the four bytes, a struct.error for a non-float
\* ("required argument is not a float"), or the OverflowError.
PackFloat(v) ==
    IF v.k = "str" THEN Raise("struct.error", "")
    ELSE IF v.k = "nan" THEN Ok(FieldBytes(0, 255, 2^22))
    ELSE IF v.k = "inf" THEN Ok(FieldBytes(v.s, 255, 0))
    ELSE IF v.m = 0 THEN Ok(FieldBytes(v.s, 0, 0))
    ELSE PackRounded(v.s, RoundF32(v.m, v.e))

\* The float of the fields of a float32.
FromFields(s, b, f) ==
    IF b = 255 THEN (IF f = 0 THEN Inf(s) ELSE NaN)
    ELSE IF b = 0 THEN Canon(s, f, -149)
    ELSE Canon(s, 2^23 + f, b - 150)

\* struct.unpack(">f", b)[0] on four bytes.
UnpackFloat(b) ==
    FromFields(b[1] \div 128,
               (b[1] % 128) * 2 + b[2] \div 128,
               (b[2] % 128) * 65536 + b[3] * 256 + b[4])

(***************************************************************************)
(* Bytes objects, the ">I" format, and sequences of outcomes.              *)
(***************************************************************************)
Min(a, b) == IF a < b THEN a ELSE b

\* The Python slice d[a:b] (a, b >= 0 are 0-based offsets; a slice never
\* fails, it is cut to what the buffer holds).
Slice(d, a, b) == SubSeq(d, a + 1, Min(b, Len(d)))

\* struct.pack(">I", n), 0 <= n.
PackU32(n) ==
    << n \div 16777216, (n \div 65536) % 256, (n \div 256) % 256, n % 256 >>

\* struct.unpack(">I", b)[0] on four bytes.
UnpackU32(b) == b[1] * 16777216 + b[2] * 65536 + b[3] * 256 + b[4]

RECURSIVE Concat(_)
Concat(ss) == IF ss = << >> THEN << >> ELSE Head(ss) \o Concat(Tail(ss))

AllOk(rs) == \A i \in 1..Len(rs) : rs[i].ok

\* The outcome that ends a loop whose iterations have the outcomes rs: the
\* first exception raised.
FirstFailure(rs) ==
    rs[CHOOSE i \in 1..Len(rs) : ~rs[i].ok /\ \A j \in 1..(i - 1) : rs[j].ok]

Values(rs) == [i \in 1..Len(rs) |-> rs[i].val]

\* A loop that appends each iteration's value to a list.
Gather(rs) == IF AllOk(rs) THEN Ok(Values(rs)) ELSE FirstFailure(rs)

\* A loop that extends a payload by each iteration's bytes.
Collect(rs) == IF AllOk(rs) THEN Ok(Concat(Values(rs))) ELSE FirstFailure(rs)

\* "except struct.error as e: raise SerializationError(msg) from e"
ExceptStructError(r, msg) ==
    IF ~r.ok /\ r.exc = "struct.error" THEN Raise("SerializationError", msg)
    ELSE r

(***************************************************************************)
(* serialization.point_set_to_bytes                                        *)
(***************************************************************************)
\* struct.pack(">ff", x, y): x is converted before y, the first failure wins.
PackPoint(p) == Collect([j \in 1..2 |-> PackFloat(p[j])])

\* "for x, y in points: payload.extend(struct.pack(POINT_FORMAT, x, y))"
PackPoints(pts) == Collect([i \in 1..Len(pts) |-> PackPoint(pts[i])])

\* Mutant: the count header is written after the points.
PointPayload_header_last(count, body) ==
    IF body.ok THEN Ok(body.val \o PackU32(count)) ELSE body

\* The payload: the count header, then the packed points.
PointPayload(count, body) ==
    IF body.ok THEN Ok(PackU32(count) \o body.val) ELSE body

point_set_to_bytes(pts) ==
    ExceptStructError(PointPayload(Len(pts), PackPoints(pts)),
                      "Failed to serialize points")

(***************************************************************************)
(* serialization.bytes_to_point_set                                        *)
(***************************************************************************)
\* struct.unpack(">ff", b): a struct.error unless b holds exactly 8 bytes.
UnpackPoint(b) ==
    IF Len(b) # POINT_SIZE THEN Raise("struct.error", "")
    ELSE Ok([j \in 1..2 |-> UnpackFloat(SubSeq(b, 4 * j - 3, 4 * j))])

\* The loop "for _ in range(count)": its i-th iteration reads POINT_SIZE
\* bytes at offset + (i - 1) * POINT_SIZE.
UnpackPoints(d, offset, count) ==
    Gather([i \in 1..count |->
               UnpackPoint(Slice(d, offset + (i - 1) * POINT_SIZE,
                                    offset + i * POINT_SIZE))])

\* Mutant: no length check against the declared count; the loop stops where
\* the buffer ends and the points read so far are returned.
DecodePoints_partial(d, count) ==
    UnpackPoints(d, HEADER_SIZE,
                 Min(count, (Len(d) - HEADER_SIZE) \div POINT_SIZE))

\* Mutant: the length check of the mesh decoder, any length other than the
\* declared one is refused.
DecodePoints_strict(d, count) ==
    IF Len(d) # HEADER_SIZE + count * POINT_SIZE
    THEN Raise("SerializationError", "Payload smaller than expected")
    ELSE UnpackPoints(d, HEADER_SIZE, count)

\* The body of the try block, count being the unpacked header.
DecodePoints(d, count) ==
    IF Len(d) < HEADER_SIZE + count * POINT_SIZE
    THEN Raise("SerializationError", "Payload smaller than expected")
    ELSE ExceptStructError(UnpackPoints(d, HEADER_SIZE, count),
                           "Failed to deserialize points")

bytes_to_point_set(d) ==
    IF Len(d) < HEADER_SIZE
    THEN Raise("SerializationError", "Payload too short to contain header")
    ELSE DecodePoints(d, UnpackU32(Slice(d, 0, HEADER_SIZE)))

(***************************************************************************)
(* serialization.triangles_to_bytes                                        *)
(***************************************************************************)
\* Mutant: only the upper bound of an index is checked.
IndexOutOfBounds_upper_only(idx, max_index) == idx > max_index

\* Mutant: the last index of the point set is refused too.
IndexOutOfBounds_last_refused(idx, max_index) == idx >= max_index \/ idx < 0

\* "idx > max_index or idx < 0"
IndexOutOfBounds(idx, max_index) == idx > max_index \/ idx < 0

\* "any(idx > max_index or idx < 0 for idx in tri)"
AnyIndexOutOfBounds(t, max_index) ==
    \E j \in 1..Len(t) : IndexOutOfBounds(t[j], max_index)

\* One ">I" field of struct.pack: a struct.error for a negative number.
PackIndex(n) == IF n < 0 THEN Raise("struct.error", "") ELSE Ok(PackU32(n))

\* Mutant: the three indices are packed last to first.
PackTriangle_reversed(t) == Collect([j \in 1..3 |-> PackIndex(t[4 - j])])

\* struct.pack(">III", a, b, c)
PackTriangle(t) == Collect([j \in 1..3 |-> PackIndex(t[j])])

\* "for a, b, c in triangles: payload.extend(struct.pack(...))"
PackTriangles(tris) == Collect([i \in 1..Len(tris) |-> PackTriangle(tris[i])])

\* The triangle section: the count header, then the packed triangles.
TrianglePayload(count, body) ==
    IF body.ok THEN Ok(PackU32(count) \o body.val) ELSE body

\* The try block once the points are serialized, with outcome p.
EncodeTriangles(p, max_index, tris) ==
    IF ~p.ok THEN p
    ELSE IF \E i \in 1..Len(tris) : AnyIndexOutOfBounds(tris[i], max_index)
    THEN Raise("SerializationError", "Triangle index out of bounds")
    ELSE Collect(<< p, TrianglePayload(Len(tris), PackTriangles(tris)) >>)

triangles_to_bytes(pts, tris) ==
    ExceptStructError(
        EncodeTriangles(point_set_to_bytes(pts), Len(pts) - 1, tris),
        "Failed to serialize triangles")

(***************************************************************************)
(* serialization.bytes_to_triangles                                        *)
(***************************************************************************)
\* Mutant: the second and third index of a triangle change places.
UnpackTriangle_swapped(b) ==
    IF Len(b) # TRIANGLE_SIZE THEN Raise("struct.error", "")
    ELSE Ok(<< UnpackU32(SubSeq(b, 1, 4)), UnpackU32(SubSeq(b, 9, 12)),
               UnpackU32(SubSeq(b, 5, 8)) >>)

\* struct.unpack(">III", b): a struct.error unless b holds exactly 12 bytes.
UnpackTriangle(b) ==
    IF Len(b) # TRIANGLE_SIZE THEN Raise("struct.error", "")
    ELSE Ok([j \in 1..3 |-> UnpackU32(SubSeq(b, 4 * j - 3, 4 * j))])

\* The loop "for _ in range(triangle_count)": its i-th iteration reads
\* TRIANGLE_SIZE bytes at offset + (i - 1) * TRIANGLE_SIZE.
UnpackTriangles(d, offset, count) ==
    Gather([i \in 1..count |->
               UnpackTriangle(Slice(d, offset + (i - 1) * TRIANGLE_SIZE,
                                       offset + i * TRIANGLE_SIZE))])

\* "return points, triangles"
MeshOf(pts, r) == IF r.ok THEN Ok(<< pts, r.val >>) ELSE r

\* Mutant: only a payload shorter than expected is refused.
TotalSizeMismatch_short_only(len, expected_total_size) ==
    len < expected_total_size

\* "len(data) != expected_total_size"
TotalSizeMismatch(len, expected_total_size) == len # expected_total_size

\* From the unpacked triangle count to the return.
DecodeTriangleSection(d, points_end_offset, pts, triangle_count) ==
    IF TotalSizeMismatch(Len(d), points_end_offset + HEADER_SIZE
                                     + triangle_count * TRIANGLE_SIZE)
    THEN Raise("SerializationError",
               "Payload size mismatch for triangles section")
    ELSE MeshOf(pts,
                ExceptStructError(
                    UnpackTriangles(d, points_end_offset + HEADER_SIZE,
                                    triangle_count),
                    "Failed to deserialize payload"))

\* From the decoded point section (outcome p) to the triangle count.
DecodeTriangleHeader(d, points_end_offset, p) ==
    IF ~p.ok THEN p
    ELSE IF Len(d) < points_end_offset + HEADER_SIZE
    THEN Raise("SerializationError", "Missing triangle count header")
    ELSE DecodeTriangleSection(
             d, points_end_offset, p.val,
             UnpackU32(Slice(d, points_end_offset,
                             points_end_offset + HEADER_SIZE)))

\* From the offset at which the point section ends to the decoded points.
DecodePointSection(d, points_end_offset) ==
    IF Len(d) < points_end_offset
    THEN Raise("SerializationError", "Payload too short for points")
    ELSE DecodeTriangleHeader(
             d, points_end_offset,
             bytes_to_point_set(Slice(d, 0, points_end_offset)))

bytes_to_triangles(d) ==
    IF Len(d) < HEADER_SIZE
    THEN Raise("SerializationError", "Payload too short")
    ELSE DecodePointSection(
             d, HEADER_SIZE + UnpackU32(Slice(d, 0, HEADER_SIZE)) * POINT_SIZE)

(***************************************************************************)
(* tests/conftest.py: triangles_bytes_factory, the reference encoder of    *)
(* the tests.  It packs what it is given and checks no index.              *)
(***************************************************************************)
triangles_bytes_factory(pts, tris) ==
    Collect(<< PointPayload(Len(pts), PackPoints(pts)),
               TrianglePayload(Len(tris), PackTriangles(tris)) >>)

(***************************************************************************)
(* algorithm.py.  The arithmetic of _is_colinear is modelled on the        *)
(* coordinates k * 2^-FracBits (k a small integer), where every product,   *)
(* sum and difference of Python's floats is exact: Units(v) is k.          *)
(***************************************************************************)
FracBits == 9

\* 1e-5 is 1 / EPSILON_INV.
EPSILON_INV == 100000

Units(v) == (IF v.s = 1 THEN -1 ELSE 1) * v.m * 2^(v.e + FracBits)

Abs(n) == IF n < 0 THEN -n ELSE n

\* Python's == on two floats of the grid (0.0 == -0.0).
FloatEq(a, b) == Units(a) = Units(b)

PointEq(p, q) == FloatEq(p[1], q[1]) /\ FloatEq(p[2], q[2])

\* len(set(points)): the number of points that equal no earlier point.
DistinctCount(pts) ==
    Cardinality({ i \in 1..Len(pts) :
                    \A j \in 1..(i - 1) : ~PointEq(pts[j], pts[i]) })

\* Mutant: the last term adds the two ordinates.
ColinearVal_sign_slip(x1, y1, x2, y2, x3, y3) ==
    x1 * (y2 - y3) + x2 * (y3 - y1) + x3 * (y1 + y2)

\* "p1[0] * (p2[1] - p3[1]) + p2[0] * (p3[1] - p1[1])
\*      + p3[0] * (p1[1] - p2[1])", in units of 2^(-2 * FracBits).
ColinearVal(x1, y1, x2, y2, x3, y3) ==
    x1 * (y2 - y3) + x2 * (y3 - y1) + x3 * (y1 - y2)

\* "abs(val) < 1e-5"
is_colinear(p1, p2, p3) ==
    Abs(ColinearVal(Units(p1[1]), Units(p1[2]), Units(p2[1]), Units(p2[2]),
                    Units(p3[1]), Units(p3[2]))) * EPSILON_INV
        < 2^(2 * FracBits)

\* Mutant: only the point of index 2 is compared with points 0 and 1.
AllColinear_first_triple(pts) == is_colinear(pts[1], pts[2], pts[3])

\* The loop over range(2, n): no point breaks the line of points 0 and 1.
AllColinear(pts) ==
    \A i \in 3..Len(pts) : is_colinear(pts[1], pts[2], pts[i])

\* Mutant: the fan's triangles are wound the other way.
Fan_reversed(n) == [i \in 1..(n - 2) |-> << 0, i + 1, i >>]

\* "for i in range(1, n - 1): triangles.append((0, i, i + 1))"
Fan(n) == [i \in 1..(n - 2) |-> << 0, i, i + 1 >>]

\* Mutant: duplicates are looked for before the points are counted.
Validate_duplicates_first(pts) ==
    IF DistinctCount(pts) # Len(pts)
    THEN Raise("InvalidPointSetError", "Duplicate points detected.")
    ELSE IF Len(pts) < 3
    THEN Raise("InvalidPointSetError", "At least 3 points are required.")
    ELSE IF AllColinear(pts)
    THEN Raise("InvalidPointSetError", "Points are colinear.")
    ELSE Ok(Fan(Len(pts)))

\* triangulate from "n = len(points)" on.
Validate(pts) ==
    IF Len(pts) < 3
    THEN Raise("InvalidPointSetError", "At least 3 points are required.")
    ELSE IF DistinctCount(pts) # Len(pts)
    THEN Raise("InvalidPointSetError", "Duplicate points detected.")
    ELSE IF AllColinear(pts)
    THEN Raise("InvalidPointSetError", "Points are colinear.")
    ELSE Ok(Fan(Len(pts)))

\* The points triangulate works on: its argument, decoded when it is bytes.
Decoded(p) == IF p.ok THEN Validate(p.val) ELSE p

\* The argument is [bytes |-> b] for a bytes object, [list |-> l] for a
\* sequence of points.
triangulate(points_or_bytes) ==
    IF "bytes" \in DOMAIN points_or_bytes
    THEN Decoded(bytes_to_point_set(points_or_bytes.bytes))
    ELSE Validate(points_or_bytes.list)

(***************************************************************************)
(* clients.py.  A PointSetManagerClient is a record holding the outcome of *)
(* its session's get: Ok of an HttpResponse, or the exception get raises.  *)
(* A test's Mock client is a record holding the outcome it is configured   *)
(* with.  A text built from parts is the sequence of its parts.            *)
(***************************************************************************)
HttpResponse(status_code, content) ==
    [status_code |-> status_code, content |-> content]

PointSetManagerClient(session) ==
    [kind |-> "PointSetManagerClient", session |-> session]

MockClient(outcome) == [kind |-> "Mock", fetch_point_set |-> outcome]

\* "serialization.bytes_to_point_set(response.content) ... return
\* response.content": p is the outcome of the decoding.
ValidatedContent(p, content) == IF p.ok THEN Ok(content) ELSE p

\* Mutant: an upstream 400 is reported like any unexpected status.
RaiseForStatus_400_unexpected(status_code, id) ==
    IF status_code = 404
    THEN Raise("PointSetNotFoundError", << "Point set ", id, " not found." >>)
    ELSE IF status_code = 503
    THEN Raise("PointSetManagerUnavailableError",
               "Service unavailable (503).")
    ELSE Raise("PointSetManagerUnavailableError",
               << "Unexpected upstream status: ", status_code >>)

\* The branches of the status codes other than 200.
RaiseForStatus(status_code, id) ==
    IF status_code = 404
    THEN Raise("PointSetNotFoundError", << "Point set ", id, " not found." >>)
    ELSE IF status_code = 400
    THEN Raise("InvalidPointSetIdError", << "Invalid ID format: ", id >>)
    ELSE IF status_code = 503
    THEN Raise("PointSetManagerUnavailableError",
               "Service unavailable (503).")
    ELSE Raise("PointSetManagerUnavailableError",
               << "Unexpected upstream status: ", status_code >>)

\* fetch_point_set once session.get returned r.
MapResponse(r, id) ==
    IF r.status_code = 200
    THEN ValidatedContent(bytes_to_point_set(r.content), r.content)
    ELSE RaiseForStatus(r.status_code, id)

\* Mutant: an exception of the session is let through.
FetchWithSession_propagates(g, id) ==
    IF ~g.ok THEN g ELSE MapResponse(g.val, id)

\* "except Exception as e: raise PointSetManagerUnavailableError(...)":
\* g is the outcome of session.get.
FetchWithSession(g, id) ==
    IF ~g.ok
    THEN Raise("PointSetManagerUnavailableError",
               << "Network error: ", g.msg >>)
    ELSE MapResponse(g.val, id)

fetch_point_set(client, id) ==
    IF client.kind = "Mock" THEN client.fetch_point_set
    ELSE FetchWithSession(client.session, id)

(***************************************************************************)
(* app.py: the check of the identifier.  An identifier is the sequence of  *)
(* its characters.  uuid.UUID also removes "urn:" and "uuid:", which is    *)
(* the identity on identifiers without a colon, the only ones used here.   *)
(***************************************************************************)
HexDigits ==
    { "0", "1", "2", "3", "4", "5", "6", "7", "8", "9",
      "a", "b", "c", "d", "e", "f", "A", "B", "C", "D", "E", "F" }

\* str.lower on a hexadecimal digit.
Lower(c) ==
    CASE c = "A" -> "a" [] c = "B" -> "b" [] c = "C" -> "c"
      [] c = "D" -> "d" [] c = "E" -> "e" [] c = "F" -> "f"
      [] OTHER -> c

IsBrace(c) == c \in { "{", "}" }

\* hex.strip('{}'): the braces at both ends are dropped.
RECURSIVE StripBraces(_)
StripBraces(t) ==
    IF t = << >> THEN t
    ELSE IF IsBrace(Head(t)) THEN StripBraces(Tail(t))
    ELSE IF IsBrace(t[Len(t)]) THEN StripBraces(SubSeq(t, 1, Len(t) - 1))
    ELSE t

NotHyphen(c) == c # "-"

\* uuid.UUID on the 32 digits left: the value, as its lowercase digits.
UUIDOfHex(h) ==
    IF Len(h) # 32 \/ \E i \in 1..Len(h) : h[i] \notin HexDigits
    THEN Raise("ValueError", "badly formed hexadecimal UUID string")
    ELSE Ok([i \in 1..32 |-> Lower(h[i])])

\* uuid.UUID(point_set_id)
UUID(t) == UUIDOfHex(SelectSeq(StripBraces(t), NotHyphen))

\* str(val): the digits in groups of 8, 4, 4, 4 and 12.
UUIDStr(v) ==
    SubSeq(v, 1, 8) \o << "-" >> \o SubSeq(v, 9, 12) \o << "-" >>
      \o SubSeq(v, 13, 16) \o << "-" >> \o SubSeq(v, 17, 20) \o << "-" >>
      \o SubSeq(v, 21, 32)

\* "if str(val) != point_set_id: raise ValueError(...)": val is the outcome
\* of uuid.UUID.
CheckCanonical(val, id) ==
    IF ~val.ok THEN val
    ELSE IF UUIDStr(val.val) # id THEN Raise("ValueError", "Non-canonical UUID")
    ELSE val

\* Mutant: every identifier uuid.UUID parses is let through.
ValidateId_parse_only(id) == UUID(id)

\* The first try block of get_triangulation.
ValidateId(id) == CheckCanonical(UUID(id), id)

(***************************************************************************)
(* app.py: get_triangulation.  A triangulation service is None (the        *)
(* algorithm module is used) or a test's Mock holding the outcome of its   *)
(* triangulate; a result is [bytes |-> b] or [list |-> l].  The handler's  *)
(* outcome is Ok of the response it returns, or the exception that leaves  *)
(* it.                                                                     *)
(***************************************************************************)
\* The value None of an argument create_app is not given.
None == [kind |-> "None"]

MockService(outcome) == [kind |-> "Mock", triangulate |-> outcome]

\* exceptions.py: TriangulatorError and the classes derived from it.
TriangulatorErrors ==
    { "TriangulatorError", "PointSetNotFoundError", "InvalidPointSetIdError",
      "PointSetManagerUnavailableError", "SerializationError",
      "InvalidPointSetError", "TriangulationError" }

\* ValueError and a class derived from it.
ValueErrors == { "ValueError", "UnicodeDecodeError" }

\* jsonify(body), status
JsonResponse(status, body) ==
    [status |-> status, content_type |-> "application/json", body |-> body]

\* make_response(response_payload) with the binary content type, 200.
SuccessResponse(response_payload) ==
    [status |-> 200, content_type |-> "application/octet-stream",
     body |-> response_payload]

\* Mutant: an unavailable point set manager is answered like any failure.
ErrorResponse_unavailable_500(e) ==
    IF e.exc = "PointSetNotFoundError"
    THEN Ok(JsonResponse(404, [code |-> "POINT_SET_NOT_FOUND"]))
    ELSE IF e.exc \in TriangulatorErrors \cup ValueErrors
    THEN Ok(JsonResponse(500, [code |-> "TRIANGULATION_FAILED",
                                 message |-> e.msg]))
    ELSE e

\* Mutant: the 500 body carries the code only.
ErrorResponse_no_message(e) ==
    IF e.exc = "PointSetNotFoundError"
    THEN Ok(JsonResponse(404, [code |-> "POINT_SET_NOT_FOUND"]))
    ELSE IF e.exc = "PointSetManagerUnavailableError"
    THEN Ok(JsonResponse(502, [code |-> "POINT_SET_MANAGER_UNAVAILABLE"]))
    ELSE IF e.exc \in TriangulatorErrors \cup ValueErrors
    THEN Ok(JsonResponse(500, [code |-> "TRIANGULATION_FAILED"]))
    ELSE e

\* Mutant: the 404 body carries the error's text too.
ErrorResponse_404_message(e) ==
    IF e.exc = "PointSetNotFoundError"
    THEN Ok(JsonResponse(404, [code |-> "POINT_SET_NOT_FOUND",
                                 message |-> e.msg]))
    ELSE IF e.exc = "PointSetManagerUnavailableError"
    THEN Ok(JsonResponse(502, [code |-> "POINT_SET_MANAGER_UNAVAILABLE"]))
    ELSE IF e.exc \in TriangulatorErrors \cup ValueErrors
    THEN Ok(JsonResponse(500, [code |-> "TRIANGULATION_FAILED",
                                 message |-> e.msg]))
    ELSE e

\* The three except clauses of the second try block, in their order; an
\* exception none of them names leaves the handler.
ErrorResponse(e) ==
    IF e.exc = "PointSetNotFoundError"
    THEN Ok(JsonResponse(404, [code |-> "POINT_SET_NOT_FOUND"]))
    ELSE IF e.exc = "PointSetManagerUnavailableError"
    THEN Ok(JsonResponse(502, [code |-> "POINT_SET_MANAGER_UNAVAILABLE"]))
    ELSE IF e.exc \in TriangulatorErrors \cup ValueErrors
    THEN Ok(JsonResponse(500, [code |-> "TRIANGULATION_FAILED",
                                 message |-> e.msg]))
    ELSE e

\* The response for the outcome of the second try block's body.
Answer(out) ==
    IF out.ok THEN Ok(SuccessResponse(out.val)) ELSE ErrorResponse(out)

\* "serialization.triangles_to_bytes(points, result)": p is the outcome of
\* decoding the fetched bytes.
EncodeWithPoints(p, result) ==
    IF ~p.ok THEN p ELSE triangles_to_bytes(p.val, result)

\* Mutant: a result in bytes is decoded and encoded again.
ResponsePayload_reencode(point_set_bytes, result) ==
    IF "bytes" \in DOMAIN result
    THEN EncodeWithPoints(bytes_to_point_set(point_set_bytes), << >>)
    ELSE EncodeWithPoints(bytes_to_point_set(point_set_bytes), result.list)

\* "if isinstance(result, bytes): ... else: ..."
ResponsePayload(point_set_bytes, result) ==
    IF "bytes" \in DOMAIN result THEN Ok(result.bytes)
    ELSE EncodeWithPoints(bytes_to_point_set(point_set_bytes), result.list)

\* The body once triangulate has the outcome r.
AfterTriangulate(point_set_bytes, r) ==
    IF ~r.ok THEN r ELSE ResponsePayload(point_set_bytes, r.val)

AsList(r) == IF r.ok THEN Ok([list |-> r.val]) ELSE r

\* algo_service.triangulate(point_set_bytes)
ServiceTriangulate(service, point_set_bytes) ==
    IF service = None THEN AsList(triangulate([bytes |-> point_set_bytes]))
    ELSE service.triangulate

\* Mutant: a failed fetch is tried a second time.
AfterFetch_retry(f, id, service) ==
    IF ~f.ok
    THEN [out |-> f, calls |-> << << "fetch_point_set", id >>,
                                  << "fetch_point_set", id >> >>]
    ELSE [out |-> AfterTriangulate(f.val, ServiceTriangulate(service, f.val)),
          calls |-> << << "fetch_point_set", id >>,
                       << "triangulate", f.val >> >>]

\* The body once fetch_point_set has the outcome f.
AfterFetch(f, id, service) ==
    IF ~f.ok
    THEN [out |-> f, calls |-> << << "fetch_point_set", id >> >>]
    ELSE [out |-> AfterTriangulate(f.val, ServiceTriangulate(service, f.val)),
          calls |-> << << "fetch_point_set", id >>,
                       << "triangulate", f.val >> >>]

\* The body of the second try block: its outcome and the calls it made.
TryBlock(id, client, service) ==
    IF client = None
    THEN [out |-> Raise("PointSetManagerUnavailableError",
                        "Client unconfigured"),
          calls |-> << >>]
    ELSE AfterFetch(fetch_point_set(client, id), id, service)

Answered(t) == [response |-> Answer(t.out), calls |-> t.calls]

get_triangulation(id, client, service) ==
    IF ~ValidateId(id).ok
    THEN [response |->
              Ok(JsonResponse(400,
                     [code |-> "INVALID_POINT_SET_ID",
                      message |-> << "'", id, "' is not a valid uuid" >>])),
          calls |-> << >>]
    ELSE Answered(TryBlock(id, client, service))

(***************************************************************************)
(* The float32 value struct.pack(">f", v) stores for a packable float v:   *)
(* what the tests' helper _to_float32 computes.                            *)
(***************************************************************************)
CanonRounded(s, r) == Canon(s, r.M, r.q)

ToFloat32(v) ==
    IF v.k # "num" \/ v.m = 0 THEN v
    ELSE CanonRounded(v.s, RoundF32(v.m, v.e))

ToFloat32Seq(pts) ==
    [i \in 1..Len(pts) |-> [j \in 1..2 |-> ToFloat32(pts[i][j])]]

(***************************************************************************)
(* Inputs of the codec scenarios.                                          *)
(***************************************************************************)
MaxPoints == 2

Zero == Num(0, 0, 0)

One == Num(0, 1, 0)

\* -1.5
NegOneHalf == Num(1, 3, -1)

\* 1 + 2^-24: halfway between two float32 values, rounds to 1.0.
TieDown == Num(0, 2^24 + 1, -24)

\* 1 + 3 * 2^-25: rounds up to 1 + 2^-23.
RoundsUp == Num(0, 2^25 + 3, -25)

\* The largest float32, (2^24 - 1) * 2^104.
MaxF32 == Num(0, 2^24 - 1, 104)

\* The largest float32 plus half its last bit: rounds to 2^128.
HalfUlpOver == Num(0, 2^25 - 1, 103)

\* 2^128 (1e39 is of this kind): a finite double beyond every float32.
TwoTo128 == Num(0, 1, 128)

\* 3 * 2^-151: rounds to the smallest subnormal float32, 2^-149.
Tiny == Num(0, 3, -151)

\* 2^-150: rounds to 0.0.
Underflow == Num(0, 1, -150)

PointDom ==
    { << Zero, One >>, << NegOneHalf, TieDown >>, << RoundsUp, Tiny >>,
      << MaxF32, Inf(1) >>, << NaN, Underflow >>, << TwoTo128, Zero >>,
      << One, HalfUlpOver >>, << NotAFloat, Zero >> }

SeqsUpTo(S, n) == UNION { [1..k -> S] : k \in 0..n }

\* Bytes a test appends to a payload.
Garbage ==
    { << 0 >>, << 222, 173, 190, 239 >>, << 0, 0, 0, 0, 0, 0, 0, 0 >> }

AllFloats(pts) ==
    \A i \in 1..Len(pts) : pts[i][1].k # "str" /\ pts[i][2].k # "str"

(***************************************************************************)
(* Scenario of the point-set codec: a point sequence is encoded, the       *)
(* payload reaches the decoder intact, truncated or with bytes appended,   *)
(* and is decoded.                                                         *)
(***************************************************************************)
InitPointSet ==
    /\ pc = "start"
    /\ points \in SeqsUpTo(PointDom, MaxPoints)
    /\ triangles = << >>
    /\ producer = "none"
    /\ enc = NoCall
    /\ data = << >>
    /\ wire = "none"
    /\ dec = NoCall
    /\ tri = NoCall
    /\ NoRequest

EncodePointSet ==
    /\ pc = "start"
    /\ enc' = point_set_to_bytes(points)
    /\ producer' = "point_set_to_bytes"
    /\ pc' = "encoded"
    /\ UNCHANGED << points, triangles, data, wire, dec, tri >>
    /\ UNCHANGED requestVars

\* The payload is handed to the decoder as it is.
Deliver ==
    /\ pc = "encoded"
    /\ enc.ok
    /\ data' = enc.val
    /\ wire' = "intact"
    /\ pc' = "wire"
    /\ UNCHANGED << points, triangles, producer, enc, dec, tri >>
    /\ UNCHANGED requestVars

\* payload[:k]: only the first k bytes arrive.
Truncate ==
    /\ pc = "encoded"
    /\ enc.ok
    /\ \E k \in 0..(Len(enc.val) - 1) : data' = SubSeq(enc.val, 1, k)
    /\ wire' = "cut"
    /\ pc' = "wire"
    /\ UNCHANGED << points, triangles, producer, enc, dec, tri >>
    /\ UNCHANGED requestVars

\* payload + garbage
AppendGarbage ==
    /\ pc = "encoded"
    /\ enc.ok
    /\ \E g \in Garbage : data' = enc.val \o g
    /\ wire' = "extended"
    /\ pc' = "wire"
    /\ UNCHANGED << points, triangles, producer, enc, dec, tri >>
    /\ UNCHANGED requestVars

DecodePointSet ==
    /\ pc = "wire"
    /\ dec' = bytes_to_point_set(data)
    /\ pc' = "done"
    /\ UNCHANGED << points, triangles, producer, enc, data, wire, tri >>
    /\ UNCHANGED requestVars

NextPointSet ==
    \/ EncodePointSet
    \/ Deliver
    \/ Truncate
    \/ AppendGarbage
    \/ DecodePointSet

SpecPointSet == InitPointSet /\ [][NextPointSet]_vars

(***************************************************************************)
(* Scenario of the mesh codec: a mesh is encoded by triangles_to_bytes, or *)
(* a payload is built by the tests' factory; the payload reaches the       *)
(* decoder intact, truncated or with bytes appended, and is decoded.       *)
(***************************************************************************)
MaxTriangles == 2

MeshPointDom ==
    { << Zero, One >>, << RoundsUp, NegOneHalf >>, << TwoTo128, Zero >>,
      << NotAFloat, Zero >> }

\* Triangles with an index out of range on either side, in range, and with
\* the three positions told apart.
TriangleDom ==
    { << 0, 0, 0 >>, << 1, 0, 0 >>, << 0, 0, 1 >>, << -1, 0, 0 >>,
      << 0, 0, -1 >> } \cup { << 0, k, 0 >> : k \in 1..MaxPoints }

\* Where a mesh payload of len bytes is cut: in the point header, after it,
\* and 1, 4, 6, 12 or 16 bytes before its end.
MeshCuts(len) ==
    ({ 0, 2, 4 } \cup { len - j : j \in { 1, 4, 6, 12, 16 } })
        \cap 0..(len - 1)

InitMesh ==
    /\ pc = "start"
    /\ points \in SeqsUpTo(MeshPointDom, MaxPoints)
    /\ triangles \in SeqsUpTo(TriangleDom, MaxTriangles)
    /\ producer = "none"
    /\ enc = NoCall
    /\ data = << >>
    /\ wire = "none"
    /\ dec = NoCall
    /\ tri = NoCall
    /\ NoRequest

EncodeMesh ==
    /\ pc = "start"
    /\ enc' = triangles_to_bytes(points, triangles)
    /\ producer' = "triangles_to_bytes"
    /\ pc' = "encoded"
    /\ UNCHANGED << points, triangles, data, wire, dec, tri >>
    /\ UNCHANGED requestVars

FactoryMesh ==
    /\ pc = "start"
    /\ enc' = triangles_bytes_factory(points, triangles)
    /\ producer' = "triangles_bytes_factory"
    /\ pc' = "encoded"
    /\ UNCHANGED << points, triangles, data, wire, dec, tri >>
    /\ UNCHANGED requestVars

\* payload[:k] for a mesh payload.
TruncateMesh ==
    /\ pc = "encoded"
    /\ enc.ok
    /\ \E k \in MeshCuts(Len(enc.val)) : data' = SubSeq(enc.val, 1, k)
    /\ wire' = "cut"
    /\ pc' = "wire"
    /\ UNCHANGED << points, triangles, producer, enc, dec, tri >>
    /\ UNCHANGED requestVars

DecodeMesh ==
    /\ pc = "wire"
    /\ dec' = bytes_to_triangles(data)
    /\ pc' = "done"
    /\ UNCHANGED << points, triangles, producer, enc, data, wire, tri >>
    /\ UNCHANGED requestVars

NextMesh ==
    \/ EncodeMesh
    \/ FactoryMesh
    \/ Deliver
    \/ TruncateMesh
    \/ AppendGarbage
    \/ DecodeMesh

SpecMesh == InitMesh /\ [][NextMesh]_vars

(***************************************************************************)
(* Scenario of the algorithm: a point sequence of the grid is handed to    *)
(* triangulate, as a list or as the bytes of its payload.                  *)
(***************************************************************************)
MaxN == 4

GridCoords == { Canon(0, k, -FracBits) : k \in { 0, 1, 3 } }

GridPoints == GridCoords \X GridCoords

InitTriangulate ==
    /\ pc = "start"
    /\ points \in SeqsUpTo(GridPoints, MaxN)
    /\ triangles = << >>
    /\ producer = "none"
    /\ enc = NoCall
    /\ data = << >>
    /\ wire = "none"
    /\ dec = NoCall
    /\ tri = NoCall
    /\ NoRequest

TriangulateList ==
    /\ pc = "start"
    /\ tri' = triangulate([list |-> points])
    /\ pc' = "done"
    /\ UNCHANGED << points, triangles, producer, enc, data, wire, dec >>
    /\ UNCHANGED requestVars

TriangulateBytes ==
    /\ pc = "wire"
    /\ tri' = triangulate([bytes |-> data])
    /\ pc' = "done"
    /\ UNCHANGED << points, triangles, producer, enc, data, wire, dec >>
    /\ UNCHANGED requestVars

NextTriangulate ==
    \/ TriangulateList
    \/ EncodePointSet
    \/ Deliver
    \/ TriangulateBytes

SpecTriangulate == InitTriangulate /\ [][NextTriangulate]_vars

(***************************************************************************)
(* Scenario of a request: an app is created with a client and a service,   *)
(* and GET /triangulation/<point_set_id> is handled.                       *)
(***************************************************************************)
Rep(c, n) == [i \in 1..n |-> c]

Hyphenated(a, b, c, d, e) ==
    a \o << "-" >> \o b \o << "-" >> \o c \o << "-" >> \o d \o << "-" >> \o e

\* aaaaaaaa-1111-4444-bbbb-000000000000 and a second canonical identifier.
CanonicalIds ==
    { Hyphenated(Rep("a", 8), Rep("1", 4), Rep("4", 4), Rep("b", 4),
                 Rep("0", 12)),
      Hyphenated(Rep("1", 8), Rep("2", 4), Rep("3", 4), Rep("4", 4),
                 Rep("5", 12)) }

\* Uppercase, non-hexadecimal, too short, too long, without hyphens, in
\* braces, with the hyphens elsewhere, and not-a-uuid.
OtherIds ==
    { Hyphenated(Rep("A", 8), Rep("1", 4), Rep("4", 4), Rep("B", 4),
                 Rep("0", 12)),
      Hyphenated(Rep("g", 8), Rep("1", 4), Rep("2", 4), Rep("3", 4),
                 Rep("4", 12)),
      Hyphenated(Rep("1", 8), Rep("2", 4), Rep("3", 4), Rep("4", 4),
                 Rep("5", 9)),
      Hyphenated(Rep("1", 8), Rep("2", 4), Rep("3", 4), Rep("4", 4),
                 Rep("5", 13)),
      Rep("1", 32),
      << "{" >> \o Hyphenated(Rep("a", 8), Rep("1", 4), Rep("4", 4),
                              Rep("b", 4), Rep("0", 12)) \o << "}" >>,
      Hyphenated(Rep("a", 4), Rep("1", 8), Rep("4", 4), Rep("b", 4),
                 Rep("0", 12)),
      << "n", "o", "t", "-", "a", "-", "u", "u", "i", "d" >> }

\* The point (x, y) * 2^-FracBits.
GP(x, y) == << Canon(0, x, -FracBits), Canon(0, y, -FracBits) >>

SquareSet == << GP(0, 0), GP(64, 0), GP(64, 64), GP(0, 64) >>

TriangleSet == << GP(0, 0), GP(64, 0), GP(32, 64) >>

ColinearSet == << GP(0, 0), GP(32, 0), GP(64, 0), GP(96, 0) >>

DuplicateSet == << GP(0, 0), GP(64, 0), GP(0, 0) >>

TwoPointSet == << GP(0, 0), GP(64, 0) >>

Payload(pts) == point_set_to_bytes(pts).val

\* What the upstream sends: payloads of point sets, one cut short, one cut
\* inside its header, one with bytes appended.
UpstreamContents ==
    { Payload(pts) : pts \in { << >>, SquareSet, TriangleSet, ColinearSet,
                               DuplicateSet, TwoPointSet } }
      \cup { SubSeq(Payload(SquareSet), 1, 30), << 0, 0, 0 >>,
             Payload(SquareSet) \o << 222, 173, 190, 239 >> }

Details == { "", "degenerate polygon" }

\* Exceptions a Mock client is made to raise.
ClientErrors ==
    { "PointSetNotFoundError", "PointSetManagerUnavailableError",
      "InvalidPointSetIdError", "SerializationError", "RuntimeError" }

\* Exceptions a Mock service is made to raise.
ServiceErrors ==
    { "TriangulationError", "InvalidPointSetError", "SerializationError",
      "PointSetNotFoundError", "PointSetManagerUnavailableError",
      "ValueError", "KeyError" }

UpstreamStatuses == { 200, 400, 404, 418, 503 }

Clients ==
    { None }
      \cup { MockClient(Ok(b)) : b \in UpstreamContents }
      \cup { MockClient(Raise(x, m)) : x \in ClientErrors, m \in Details }
      \cup { PointSetManagerClient(Ok(HttpResponse(st, b))) :
                 st \in UpstreamStatuses, b \in UpstreamContents }
      \cup { PointSetManagerClient(Raise("TimeoutError", "boom")) }

Services ==
    { None }
      \cup { MockService(Ok([bytes |-> b])) :
                 b \in { << >>, << 0, 0, 0, 0, 0, 0, 0, 0 >> } }
      \cup { MockService(Ok([list |-> l])) :
                 l \in { << >>, << << 0, 1, 2 >>, << 0, 2, 3 >> >>,
                         << << 0, 1, 5 >> >> } }
      \cup { MockService(Raise(x, m)) : x \in ServiceErrors, m \in Details }

InitRequest ==
    /\ pc = "start"
    /\ points = << >>
    /\ triangles = << >>
    /\ producer = "none"
    /\ enc = NoCall
    /\ data = << >>
    /\ wire = "none"
    /\ dec = NoCall
    /\ tri = NoCall
    /\ point_set_id \in CanonicalIds \cup OtherIds
    /\ point_set_client \in Clients
    /\ triangulation_service \in Services
    /\ fetched = NoCall
    /\ calls = << >>
    /\ response = NoCall
    /\ requests = << >>

GetTriangulation ==
    /\ pc = "start"
    /\ LET handled == get_triangulation(point_set_id, point_set_client,
                                        triangulation_service)
       IN  /\ response' = handled.response
           /\ calls' = handled.calls
    /\ pc' = "done"
    /\ UNCHANGED << points, triangles, producer, enc, data, wire, dec, tri,
                    point_set_id, point_set_client, triangulation_service,
                    fetched, requests >>

NextRequest == GetTriangulation

SpecRequest == InitRequest /\ [][NextRequest]_vars

(***************************************************************************)
(***************************************************************************)
(* The client on its own: a PointSetManagerClient over a session that      *)
(* answers with a status and a content, or raises, is asked for a point    *)
(* set.                                                                    *)
(***************************************************************************)
\* A payload that declares 1000 points and holds one.
CorruptedPayload == << 0, 0, 3, 232 >> \o SubSeq(Payload(TwoPointSet), 5, 12)

SessionContents == UpstreamContents \cup { CorruptedPayload }

\* Exceptions session.get is made to raise, with their texts.
SessionErrors ==
    { Raise("TimeoutError", "boom"),
      Raise("Exception", "Something weird happened"),
      Raise("ConnectionError", "") }

Sessions ==
    { Ok(HttpResponse(st, b)) : st \in UpstreamStatuses, b \in SessionContents }
      \cup SessionErrors

InitClient ==
    /\ pc = "start"
    /\ points = << >>
    /\ triangles = << >>
    /\ producer = "none"
    /\ enc = NoCall
    /\ data = << >>
    /\ wire = "none"
    /\ dec = NoCall
    /\ tri = NoCall
    /\ point_set_id \in CanonicalIds
    /\ point_set_client \in { PointSetManagerClient(g) : g \in Sessions }
    /\ triangulation_service = None
    /\ fetched = NoCall
    /\ calls = << >>
    /\ response = NoCall
    /\ requests = << >>

FetchPointSet ==
    /\ pc = "start"
    /\ fetched' = fetch_point_set(point_set_client, point_set_id)
    /\ pc' = "done"
    /\ UNCHANGED << points, triangles, producer, enc, data, wire, dec, tri,
                    point_set_id, point_set_client, triangulation_service,
                    calls, response, requests >>

NextClient == FetchPointSet

SpecClient == InitClient /\ [][NextClient]_vars

(***************************************************************************)
(* Properties of the point-set codec, checked under SpecPointSet.          *)
(***************************************************************************)
\* The count a payload of at least four bytes declares, read byte by byte.
DeclaredCount(d) == d[1] * 16777216 + d[2] * 65536 + d[3] * 256 + d[4]

\* The two coordinates stored in the i-th eight bytes after the header.
StoredPoint(d, i) ==
    << UnpackFloat(SubSeq(d, 8 * i - 3, 8 * i)),
       UnpackFloat(SubSeq(d, 8 * i + 1, 8 * i + 4)) >>

\* C1: for every sequence P of points with float coordinates (finite of any
\* magnitude, infinite or NaN, the empty sequence included),
\* point_set_to_bytes(P) returns a payload and bytes_to_point_set of that
\* payload returns P with every coordinate rounded to float32.
C1_PointSetRoundTrip ==
    AllFloats(points) =>
        /\ (producer = "point_set_to_bytes" => enc.ok)
        /\ (pc = "done" /\ wire = "intact"
                => dec = Ok(ToFloat32Seq(points)))

\* C8: bytes_to_point_set raises SerializationError, and returns no point
\* list, for every buffer shorter than 4 bytes and for every buffer shorter
\* than 4 + 8 * count bytes, count being the count its header declares.
C8_ShortBufferRaises ==
    (pc = "done"
       /\ (Len(data) < 4 \/ Len(data) < 4 + 8 * DeclaredCount(data)))
        => (~dec.ok /\ dec.exc = "SerializationError")

\* A buffer that holds the header and one whole point of the two declared.
C8_Witness ==
    /\ pc = "done"
    /\ Len(data) >= 12
    /\ DeclaredCount(data) = 2
    /\ Len(data) < 20
    /\ ~dec.ok
    /\ dec.msg = "Payload smaller than expected"

\* C9: bytes_to_point_set succeeds on every buffer of at least 4 + 8 * count
\* bytes, count being the count its header declares, and returns exactly
\* the count points stored in the first 4 + 8 * count bytes, in order; the
\* bytes after them change nothing.
C9_TrailingBytesIgnored ==
    (pc = "done" /\ Len(data) >= 4
       /\ Len(data) >= 4 + 8 * DeclaredCount(data))
        => /\ dec.ok
           /\ Len(dec.val) = DeclaredCount(data)
           /\ \A i \in 1..DeclaredCount(data) :
                  dec.val[i] = StoredPoint(data, i)
           /\ dec.val = ToFloat32Seq(points)

\* Two points decoded from a payload that carries appended bytes.
C9_Witness ==
    /\ pc = "done"
    /\ wire = "extended"
    /\ Len(data) > 4 + 8 * DeclaredCount(data)
    /\ dec.ok
    /\ Len(dec.val) = 2
    /\ dec.val[1] # dec.val[2]

(***************************************************************************)
(* Properties of the mesh codec, checked under SpecMesh.                   *)
(***************************************************************************)
\* A finite coordinate at least half a unit in the last place above the
\* largest float32, (2^25 - 1) * 2^103: it rounds to no finite float32.
ExceedsFloat32(v) ==
    /\ v.k = "num"
    /\ v.m # 0
    /\ \/ v.e + BitLen(v.m) > 128
       \/ /\ v.e + BitLen(v.m) = 128
          /\ IF BitLen(v.m) <= 25
             THEN v.m * 2^(25 - BitLen(v.m)) >= 2^25 - 1
             ELSE v.m >= (2^25 - 1) * 2^(BitLen(v.m) - 25)

AnyExceedsFloat32(pts) ==
    \E i \in 1..Len(pts) : \E j \in 1..2 : ExceedsFloat32(pts[i][j])

\* Some index of some triangle lies outside 0 .. len(P) - 1.
HasBadIndex(pts, tris) ==
    \E i \in 1..Len(tris) : \E j \in 1..3 :
        tris[i][j] < 0 \/ tris[i][j] > Len(pts) - 1

\* C2 as stated: bytes_to_triangles(triangles_to_bytes(P, T)) returns
\* exactly (P, T) whenever the encoding is produced.
C2_ExactRoundTrip ==
    (producer = "triangles_to_bytes" /\ pc = "done" /\ wire = "intact")
        => dec = Ok(<< points, triangles >>)

\* C2, amended: for P with float coordinates and T with every index in
\* 0 .. len(P) - 1, triangles_to_bytes(P, T) raises OverflowError when a
\* finite coordinate is beyond the float32 range and returns a payload
\* otherwise; bytes_to_triangles of that payload returns (P rounded to
\* float32, T), both in order, which is (P, T) itself when every coordinate
\* of P is a float32 value.
C2_MeshRoundTripFloat32 ==
    (producer = "triangles_to_bytes" /\ AllFloats(points)
       /\ ~HasBadIndex(points, triangles))
        => /\ enc.ok <=> ~AnyExceedsFloat32(points)
           /\ ~enc.ok => enc.exc = "OverflowError"
           /\ (pc = "done" /\ wire = "intact")
                  => /\ dec = Ok(<< ToFloat32Seq(points), triangles >>)
                     /\ (points = ToFloat32Seq(points)
                            => dec = Ok(<< points, triangles >>))

\* Two different triangles and a coordinate that float32 rounds.
C2_Witness ==
    /\ producer = "triangles_to_bytes"
    /\ pc = "done"
    /\ wire = "intact"
    /\ dec.ok
    /\ Len(triangles) = 2
    /\ triangles[1] # triangles[2]
    /\ << 0, 0, 1 >> \in { triangles[1], triangles[2] }
    /\ points # ToFloat32Seq(points)

DeclaredMeshLength(d) ==
    4 + 8 * DeclaredCount(d) + 4
      + 12 * DeclaredCount(SubSeq(d, 4 + 8 * DeclaredCount(d) + 1,
                                     4 + 8 * DeclaredCount(d) + 4))

\* C7: bytes_to_triangles succeeds only on buffers whose length is exactly
\* 4 + 8 * point_count + 4 + 12 * triangle_count; every shorter and every
\* longer buffer raises SerializationError.
C7_ExactLength ==
    pc = "done"
        => /\ dec.ok
                  => /\ Len(data) >= 8 + 8 * DeclaredCount(data)
                     /\ Len(data) = DeclaredMeshLength(data)
           /\ wire \in { "cut", "extended" } => ~dec.ok
           /\ ~dec.ok => dec.exc = "SerializationError"

\* A whole mesh payload followed by appended bytes.
C7_Witness ==
    /\ pc = "done"
    /\ wire = "extended"
    /\ Len(triangles) >= 1
    /\ Len(data) > DeclaredMeshLength(data)
    /\ dec = Raise("SerializationError",
                   "Payload size mismatch for triangles section")

\* C10: every mesh bytes_to_triangles returns has all its triangle indices
\* in 0 .. N - 1, N being the number of points it returns.
C10_DecodedIndicesInRange ==
    (pc = "done" /\ dec.ok)
        => \A i \in 1..Len(dec.val[2]) : \A j \in 1..3 :
               /\ 0 <= dec.val[2][i][j]
               /\ dec.val[2][i][j] <= Len(dec.val[1]) - 1

(***************************************************************************)
(* Properties of triangulate, checked under SpecTriangulate.               *)
(***************************************************************************)
\* Two points of the sequence have the same coordinates.
HasDuplicate(pts) ==
    \E i \in 1..Len(pts) : \E j \in (i + 1)..Len(pts) : pts[i] = pts[j]

\* A point of the grid as its two coordinates in units of 2^-FracBits.
InUnits(p) == << Units(p[1]), Units(p[2]) >>

\* (p1.x - p0.x) * (pi.y - p0.y) - (pi.x - p0.x) * (p1.y - p0.y) on points
\* in units, the result in units of 2^(-2 * FracBits).
CrossOfUnits(u0, u1, ui) ==
    (u1[1] - u0[1]) * (ui[2] - u0[2]) - (ui[1] - u0[1]) * (u1[2] - u0[2])

Cross(p0, p1, pi) == CrossOfUnits(InUnits(p0), InUnits(p1), InUnits(pi))

\* |cross(p0, p1, pi)| < 1e-5
CrossBelowEpsilon(p0, p1, pi) ==
    Abs(Cross(p0, p1, pi)) * 100000 < 2^(2 * FracBits)

\* C3: when triangulate accepts a point set of N points, N is at least 3
\* and the result is the sequence (0,1,2), (0,2,3), ..., (0,N-2,N-1): N - 2
\* triangles, the i-th being (0, i, i+1) with its indices in that order,
\* each holding vertex 0 and only indices of 0 .. N - 1.
C3_FanTriangulation ==
    (pc = "done" /\ tri.ok)
        => /\ Len(points) >= 3
           /\ Len(tri.val) = Len(points) - 2
           /\ \A i \in 1..(Len(points) - 2) :
                  /\ tri.val[i] = << 0, i, i + 1 >>
                  /\ \A j \in 1..3 : tri.val[i][j] \in 0..(Len(points) - 1)

\* Four points, handed over as bytes, give the two triangles of the fan.
C3_Witness ==
    /\ pc = "done"
    /\ wire = "intact"
    /\ Len(points) = 4
    /\ tri = Ok(<< << 0, 1, 2 >>, << 0, 2, 3 >> >>)

\* C4: triangulate checks the count, then duplicates, then colinearity, and
\* the first violation wins: fewer than 3 points fail as 'At least 3 points
\* are required.' even with duplicates among them; 3 or more points with
\* two equal points fail as 'Duplicate points detected.' even when all are
\* colinear; 'Points are colinear.' is raised only for 3 or more points
\* without duplicates.  Every failure is an InvalidPointSetError with one
\* of these three messages, and no triangle list is returned.
C4_ValidationOrder ==
    pc = "done"
        => /\ Len(points) < 3
                  => tri = Raise("InvalidPointSetError",
                                 "At least 3 points are required.")
           /\ (Len(points) >= 3 /\ HasDuplicate(points))
                  => tri = Raise("InvalidPointSetError",
                                 "Duplicate points detected.")
           /\ (~tri.ok /\ tri.msg = "Points are colinear.")
                  => (Len(points) >= 3 /\ ~HasDuplicate(points))
           /\ ~tri.ok
                  => /\ tri.exc = "InvalidPointSetError"
                     /\ tri.msg \in { "At least 3 points are required.",
                                      "Duplicate points detected.",
                                      "Points are colinear." }
                     /\ DOMAIN tri = { "ok", "exc", "msg" }

\* Two equal points: too few points is what is reported.
C4_Witness ==
    /\ pc = "done"
    /\ Len(points) = 2
    /\ points[1] = points[2]
    /\ tri = Raise("InvalidPointSetError", "At least 3 points are required.")

C11_PointSetLayout ==
    (producer = "point_set_to_bytes" /\ enc.ok)
        => /\ Len(enc.val) = 4 + 8 * Len(points)
           /\ \A n \in 1..Len(enc.val) : enc.val[n] \in 0..255
           /\ SubSeq(enc.val, 1, 4) = << 0, 0, 0, Len(points) >>
           /\ \A i \in 1..Len(points) :
                  StoredPoint(enc.val, i)
                      = << ToFloat32(points[i][1]), ToFloat32(points[i][2]) >>
           /\ points = << >> => enc.val = << 0, 0, 0, 0 >>

\* Two different points, one of them rounded by float32, are encoded.
C11_Witness ==
    /\ producer = "point_set_to_bytes"
    /\ enc.ok
    /\ Len(points) = 2
    /\ points[1] # points[2]
    /\ points # ToFloat32Seq(points)
    /\ Len(enc.val) = 20

\* The three indices stored in the i-th twelve bytes after offset.
StoredTriangle(d, offset, i) ==
    [j \in 1..3 |->
        DeclaredCount(SubSeq(d, offset + 12 * (i - 1) + 4 * j - 3,
                                offset + 12 * (i - 1) + 4 * j))]

\* C12: for every P and every T with all indices in 0 .. len(P) - 1,
\* triangles_to_bytes(P, T) returns a payload exactly when
\* point_set_to_bytes(P) does, and the payload is that of
\* point_set_to_bytes(P) followed by the big-endian uint32 len(T) and the
\* len(T) triples (a, b, c) as uint32 in input order, 4 + 8 * len(P) + 4 +
\* 12 * len(T) bytes in all.  (Checked under SpecMesh.)
C12_MeshLayout ==
    (producer = "triangles_to_bytes" /\ ~HasBadIndex(points, triangles))
        => /\ enc.ok <=> point_set_to_bytes(points).ok
           /\ enc.ok
                  => /\ Len(enc.val)
                          = 4 + 8 * Len(points) + 4 + 12 * Len(triangles)
                     /\ SubSeq(enc.val, 1, 4 + 8 * Len(points))
                          = point_set_to_bytes(points).val
                     /\ SubSeq(enc.val, 4 + 8 * Len(points) + 1,
                                        4 + 8 * Len(points) + 4)
                          = << 0, 0, 0, Len(triangles) >>
                     /\ \A i \in 1..Len(triangles) :
                            StoredTriangle(enc.val, 8 + 8 * Len(points), i)
                                = triangles[i]

\* Two points and two different triangles are encoded.
C12_Witness ==
    /\ producer = "triangles_to_bytes"
    /\ enc.ok
    /\ Len(points) = 2
    /\ Len(triangles) = 2
    /\ triangles[1] # triangles[2]
    /\ << 0, 0, 1 >> \in { triangles[1], triangles[2] }
    /\ Len(enc.val) = 48

(***************************************************************************)
(* Properties of the transport boundary, checked under SpecRequest.        *)
(***************************************************************************)
\* What fetching, triangulating and encoding come to in the request at
\* hand: the payload of the response, or the error raised on the way.
Raised == TryBlock(point_set_id, point_set_client, triangulation_service).out

\* The request's identifier passes the handler's syntax check.
Handled == pc = "done" /\ point_set_id \in CanonicalIds

NotFoundResponse == JsonResponse(404, [code |-> "POINT_SET_NOT_FOUND"])

UnavailableResponse ==
    JsonResponse(502, [code |-> "POINT_SET_MANAGER_UNAVAILABLE"])

\* C13: a PointSetNotFoundError is answered 404 with code
\* POINT_SET_NOT_FOUND, a PointSetManagerUnavailableError 502 with code
\* POINT_SET_MANAGER_UNAVAILABLE, and so is every request of an app created
\* without a client: the handler returns that response, nothing is raised.
C13_NotFoundAndUnavailable ==
    Handled
        => /\ (~Raised.ok /\ Raised.exc = "PointSetNotFoundError")
                  => response = Ok(NotFoundResponse)
           /\ (~Raised.ok /\ Raised.exc = "PointSetManagerUnavailableError")
                  => response = Ok(UnavailableResponse)
           /\ point_set_client = None => response = Ok(UnavailableResponse)
           /\ \A m \in Details :
                  /\ point_set_client
                         = MockClient(Raise("PointSetNotFoundError", m))
                       => response = Ok(NotFoundResponse)
                  /\ point_set_client
                         = MockClient(Raise("PointSetManagerUnavailableError",
                                            m))
                       => response = Ok(UnavailableResponse)

\* An app without a client answers 502.
C13_Witness ==
    /\ Handled
    /\ point_set_client = None
    /\ response.ok
    /\ response.val.status = 502
    /\ response.val.body.code = "POINT_SET_MANAGER_UNAVAILABLE"

\* C14: a SerializationError, InvalidPointSetError or TriangulationError
\* raised while fetching, triangulating or encoding is answered 500 with
\* code TRIANGULATION_FAILED and the error's text as message.
C14_FailureIs500 ==
    Handled
        => /\ (~Raised.ok
                 /\ Raised.exc \in { "SerializationError",
                                     "InvalidPointSetError",
                                     "TriangulationError" })
                  => response
                       = Ok(JsonResponse(500,
                                [code |-> "TRIANGULATION_FAILED",
                                 message |-> Raised.msg]))
           /\ \A x \in { "SerializationError", "InvalidPointSetError",
                         "TriangulationError" } :
                  (point_set_client = MockClient(Ok(Payload(SquareSet)))
                     /\ triangulation_service
                            = MockService(Raise(x, "degenerate polygon")))
                      => response
                           = Ok(JsonResponse(500,
                                    [code |-> "TRIANGULATION_FAILED",
                                     message |-> "degenerate polygon"]))

\* The service returns a triangle with an index the point set lacks: the
\* failure of the encoding is answered 500 with its text.
C14_Witness ==
    /\ Handled
    /\ triangulation_service = MockService(Ok([list |-> << << 0, 1, 5 >> >>]))
    /\ Len(calls) = 2
    /\ response.ok
    /\ response.val.status = 500
    /\ response.val.body
         = [code |-> "TRIANGULATION_FAILED",
            message |-> "Triangle index out of bounds"]

\* C15: whenever an InvalidPointSetIdError arises in a request whose
\* identifier passed the syntax check (the client raised it: the upstream
\* answered 400), the response status is 400.
C15_InvalidIdIs400 ==
    (Handled /\ ~Raised.ok /\ Raised.exc = "InvalidPointSetIdError")
        => response.ok /\ response.val.status = 400

\* C16: every request with a valid identifier is answered, by 200 with the
\* mesh, or by a JSON error 404, 502 or 500 TRIANGULATION_FAILED with a
\* message; no exception leaves the handler.
C16_AlwaysClassified ==
    Handled
        => /\ response.ok
           /\ \/ /\ response.val.status = 200
                 /\ response.val.content_type = "application/octet-stream"
              \/ response.val = NotFoundResponse
              \/ response.val = UnavailableResponse
              \/ /\ response.val.status = 500
                 /\ response.val.content_type = "application/json"
                 /\ DOMAIN response.val.body = { "code", "message" }
                 /\ response.val.body.code = "TRIANGULATION_FAILED"

\* The 400 response to the identifier id.
InvalidIdResponse(id) ==
    JsonResponse(400, [code |-> "INVALID_POINT_SET_ID",
                       message |-> << "'", id, "' is not a valid uuid" >>])

\* C17: a request whose identifier is not a canonical lowercase hyphenated
\* UUID is answered 400 INVALID_POINT_SET_ID, and at no moment of that
\* request is the client's fetch or the engine's triangulate called.
C17_RejectedBeforeCore ==
    point_set_id \notin CanonicalIds
        => /\ calls = << >>
           /\ pc = "done" => response = Ok(InvalidIdResponse(point_set_id))

\* The uppercase form of a canonical identifier, which uuid.UUID parses,
\* has been answered 400 although client and service would have succeeded.
C17_Witness ==
    /\ pc = "done"
    /\ point_set_id
         = Hyphenated(Rep("A", 8), Rep("1", 4), Rep("4", 4), Rep("B", 4),
                      Rep("0", 12))
    /\ UUID(point_set_id).ok
    /\ point_set_client = MockClient(Ok(Payload(SquareSet)))
    /\ triangulation_service = None
    /\ response.ok
    /\ response.val.status = 400
    /\ response.val.body.code = "INVALID_POINT_SET_ID"
    /\ calls = << >>

\* The bytes the client returned in the request at hand.
FetchedBytes == fetch_point_set(point_set_client, point_set_id)

\* What the engine returned for them.
EngineResult == ServiceTriangulate(triangulation_service, FetchedBytes.val)

\* triangles_to_bytes(bytes_to_point_set(b), T)
EncodedFrom(b, T) == triangles_to_bytes(bytes_to_point_set(b).val, T)

\* C18: a 200 response has the binary content type; the fetch and the
\* engine succeeded; if the engine returned bytes the body is those bytes,
\* if it returned a list T of triangles the body is
\* triangles_to_bytes(bytes_to_point_set(fetched bytes), T), a payload
\* bytes_to_triangles accepts.
C18_SuccessBody ==
    (Handled /\ response.ok /\ response.val.status = 200)
        => /\ response.val.content_type = "application/octet-stream"
           /\ FetchedBytes.ok
           /\ EngineResult.ok
           /\ "bytes" \in DOMAIN EngineResult.val
                  => response.val.body = EngineResult.val.bytes
           /\ "list" \in DOMAIN EngineResult.val
                  => /\ response.val.body
                          = EncodedFrom(FetchedBytes.val,
                                        EngineResult.val.list).val
                     /\ bytes_to_triangles(response.val.body).ok

\* The service returned two triangles as a list for the square: the body
\* has the four points and the two triangles, 64 bytes.
C18_Witness ==
    /\ Handled
    /\ point_set_client = MockClient(Ok(Payload(SquareSet)))
    /\ triangulation_service
         = MockService(Ok([list |-> << << 0, 1, 2 >>, << 0, 2, 3 >> >>]))
    /\ response.ok
    /\ response.val.status = 200
    /\ Len(response.val.body) = 64
    /\ SubSeq(response.val.body, 1, 36) = Payload(SquareSet)

\* The two kinds of error answered 404 and 502.
UpstreamKinds == { "PointSetNotFoundError", "PointSetManagerUnavailableError" }

\* The response to the request at hand had its client raised the error of
\* kind x with the text m.
SiblingResponse(x, m) ==
    get_triangulation(point_set_id, MockClient(Raise(x, m)),
                      triangulation_service).response

\* C19: the body of a 404 or 502 response holds the code only and does not
\* depend on the error's text: a request failing with the same kind and
\* any other text gets the same response; among the answers to valid
\* identifiers only those with status 500 carry a message.
C19_NoDetailIn404And502 ==
    Handled
        => /\ (~Raised.ok /\ Raised.exc \in UpstreamKinds)
                  => /\ response.ok
                     /\ response.val.status \in { 404, 502 }
                     /\ DOMAIN response.val.body = { "code" }
                     /\ \A m \in Details :
                            SiblingResponse(Raised.exc, m) = response
           /\ (response.ok /\ response.val.status \in { 404, 502 })
                  => DOMAIN response.val.body = { "code" }
           /\ (response.ok /\ response.val.content_type = "application/json"
                 /\ "message" \in DOMAIN response.val.body)
                  => response.val.status = 500

\* The upstream answered 404 to a real client, whose error text names the
\* identifier: the body holds the code and nothing else.
C19_Witness ==
    /\ Handled
    /\ point_set_client
         = PointSetManagerClient(Ok(HttpResponse(404, << 0, 0, 0 >>)))
    /\ ~Raised.ok
    /\ Raised.msg = << "Point set ", point_set_id, " not found." >>
    /\ response = Ok(NotFoundResponse)
    /\ SiblingResponse("PointSetNotFoundError", "degenerate polygon")
         = response

(***************************************************************************)
(* Properties of the client, checked under SpecClient.                     *)
(***************************************************************************)
\* What session.get came to in the call at hand.
Got == point_set_client.session

\* The content is shorter than its header, or than the points it declares.
CutShort(b) == Len(b) < 4 \/ Len(b) < 4 + 8 * DeclaredCount(b)

\* C20: fetch_point_set returns the content of a 200 response unchanged
\* when it holds the points it declares, raises SerializationError when it
\* is cut short, PointSetNotFoundError on 404, InvalidPointSetIdError on
\* 400, and PointSetManagerUnavailableError on 503, on any other status and
\* on any exception of the session.
C20_UpstreamMapping ==
    pc = "done"
        => /\ ~Got.ok
                  => (~fetched.ok
                        /\ fetched.exc = "PointSetManagerUnavailableError")
           /\ (Got.ok /\ Got.val.status_code = 200
                 /\ ~CutShort(Got.val.content))
                  => fetched = Ok(Got.val.content)
           /\ (Got.ok /\ Got.val.status_code = 200
                 /\ CutShort(Got.val.content))
                  => (~fetched.ok /\ fetched.exc = "SerializationError")
           /\ (Got.ok /\ Got.val.status_code = 404)
                  => (~fetched.ok /\ fetched.exc = "PointSetNotFoundError")
           /\ (Got.ok /\ Got.val.status_code = 400)
                  => (~fetched.ok /\ fetched.exc = "InvalidPointSetIdError")
           /\ (Got.ok /\ Got.val.status_code \notin { 200, 404, 400 })
                  => (~fetched.ok
                        /\ fetched.exc = "PointSetManagerUnavailableError")

\* The upstream answered 400 with a payload that would have decoded.
C20_Witness ==
    /\ pc = "done"
    /\ Got = Ok(HttpResponse(400, Payload(SquareSet)))
    /\ ~fetched.ok
    /\ fetched.exc = "InvalidPointSetIdError"
    /\ fetched.msg = << "Invalid ID format: ", point_set_id >>

\* The three kinds of error the upstream contract names.
ContractKinds ==
    { "PointSetNotFoundError", "InvalidPointSetIdError",
      "PointSetManagerUnavailableError" }

\* C21: whatever the upstream answers, fetch_point_set returns bytes or
\* raises one of PointSetNotFoundError, InvalidPointSetIdError and
\* PointSetManagerUnavailableError, and no error of another kind.
C21_OnlyContractKinds ==
    pc = "done" => (fetched.ok \/ fetched.exc \in ContractKinds)

\* C21 as amended: fetch_point_set returns the bytes of the response or
\* raises one of the three kinds or SerializationError, the latter exactly
\* when the upstream answered 200 with a content that does not decode.
C21_ContractKindsOrSerialization ==
    pc = "done"
        => /\ fetched.ok \/ fetched.exc \in ContractKinds
                \/ fetched.exc = "SerializationError"
           /\ fetched.ok => (Got.ok /\ fetched.val = Got.val.content)
           /\ (~fetched.ok /\ fetched.exc = "SerializationError")
                  <=> (Got.ok /\ Got.val.status_code = 200
                         /\ CutShort(Got.val.content))

\* The upstream answered 200 with three bytes: SerializationError.
C21_Witness ==
    /\ pc = "done"
    /\ Got = Ok(HttpResponse(200, << 0, 0, 0 >>))
    /\ ~fetched.ok
    /\ fetched.exc = "SerializationError"

(***************************************************************************)
(* Properties of the handler's steps, checked under SpecRequest.           *)
(***************************************************************************)
\* The app has a client and its fetch failed in the request at hand.
FetchFailed == point_set_client # None /\ ~FetchedBytes.ok

\* The fetch returned bytes.
FetchReturned == point_set_client # None /\ FetchedBytes.ok

\* C22: in one request the fetch is called at most once, with the
\* request's identifier; the engine is called at most once, only after the
\* fetch returned bytes, and with those bytes; after a failure no further
\* step runs: the response is the one of the first failure.
C22_StepsOrdered ==
    /\ pc = "start" => calls = << >>
    /\ Handled
        => /\ Len(calls) <= 2
           /\ point_set_client = None => calls = << >>
           /\ point_set_client # None
                  => /\ Len(calls) >= 1
                     /\ calls[1] = << "fetch_point_set", point_set_id >>
           /\ FetchFailed
                  => /\ Len(calls) = 1
                     /\ response = Answer(FetchedBytes)
           /\ FetchReturned
                  => /\ Len(calls) = 2
                     /\ calls[2] = << "triangulate", FetchedBytes.val >>
                     /\ ~EngineResult.ok => response = Answer(EngineResult)

\* The upstream answered 404 to an app whose engine would have succeeded:
\* one call, the fetch, and the 404 response.
C22_Witness ==
    /\ Handled
    /\ point_set_client
         = PointSetManagerClient(Ok(HttpResponse(404, Payload(SquareSet))))
    /\ triangulation_service = None
    /\ calls = << << "fetch_point_set", point_set_id >> >>
    /\ response = Ok(NotFoundResponse)

(***************************************************************************)
(* Requests handled concurrently by one app.  Each call of                 *)
(* get_triangulation has its own locals (point_set_id, point_set_bytes,    *)
(* result, the response); the calls share the two arguments of create_app, *)
(* which no statement assigns.  A call advances one statement at a time    *)
(* and the calls interleave.  What the session answers is fixed per call:  *)
(* the field upstream of the call's locals.                                *)
(***************************************************************************)
NumRequests == 2

\* The locals of a call that has not started.
Locals(id, upstream) ==
    [pc |-> "start", point_set_id |-> id, upstream |-> upstream,
     point_set_bytes |-> << >>, result |-> NoCall, response |-> NoCall]

\* Mutant: the locals are kept in one place shared by all the calls.
Frame_shared(rs, r) == rs[1]

\* The locals of the call handling request r.
Frame(rs, r) == rs[r]

\* The call returns (or raises) out.
Returning(q, out) == [q EXCEPT !.pc = "done", !.response = out]

\* Lines 14-22 for the call with locals q.
ValidateStep(q) ==
    IF ~ValidateId(q.point_set_id).ok
    THEN Returning(q, get_triangulation(q.point_set_id, None, None).response)
    ELSE [q EXCEPT !.pc = "validated"]

\* The client as this call finds it: its session answers q.upstream.
ClientFor(client, q) ==
    IF client = None THEN None ELSE PointSetManagerClient(q.upstream)

\* Lines 25-28: f is the outcome of the fetch.
FetchStep(q, client, f) ==
    IF client = None
    THEN Returning(q, Answer(Raise("PointSetManagerUnavailableError",
                                   "Client unconfigured")))
    ELSE IF ~f.ok THEN Returning(q, Answer(f))
    ELSE [q EXCEPT !.pc = "fetched", !.point_set_bytes = f.val]

\* Line 29: r is the outcome of triangulate.
TriangulateStep(q, r) ==
    IF ~r.ok THEN Returning(q, Answer(r))
    ELSE [q EXCEPT !.pc = "triangulated", !.result = r]

\* Lines 31-39.
RespondStep(q) ==
    Returning(q, Answer(ResponsePayload(q.point_set_bytes, q.result.val)))

ConcurrentUpstreams ==
    { Ok(HttpResponse(200, Payload(SquareSet))),
      Ok(HttpResponse(200, Payload(ColinearSet))),
      Ok(HttpResponse(404, << >>)),
      Raise("TimeoutError", "boom") }

ConcurrentIds ==
    { Hyphenated(Rep("a", 8), Rep("1", 4), Rep("4", 4), Rep("b", 4),
                 Rep("0", 12)),
      Hyphenated(Rep("A", 8), Rep("1", 4), Rep("4", 4), Rep("B", 4),
                 Rep("0", 12)) }

ConcurrentServices ==
    { None,
      MockService(Ok([list |-> << << 0, 1, 2 >>, << 0, 2, 3 >> >>])),
      MockService(Ok([bytes |-> << 0, 0, 0, 0, 0, 0, 0, 0 >>])) }

InitConcurrent ==
    /\ pc = "start"
    /\ points = << >>
    /\ triangles = << >>
    /\ producer = "none"
    /\ enc = NoCall
    /\ data = << >>
    /\ wire = "none"
    /\ dec = NoCall
    /\ tri = NoCall
    /\ point_set_id = << >>
    /\ point_set_client \in { None, PointSetManagerClient(NoCall) }
    /\ triangulation_service \in ConcurrentServices
    /\ fetched = NoCall
    /\ calls = << >>
    /\ response = NoCall
    /\ requests \in [1..NumRequests
                       -> { Locals(id, u) : id \in ConcurrentIds,
                                            u \in ConcurrentUpstreams }]

\* The call of request r moves to locals q.
Advance(r, q) ==
    /\ requests' = [requests EXCEPT ![r] = q]
    /\ UNCHANGED << pc, points, triangles, producer, enc, data, wire, dec,
                    tri, point_set_id, point_set_client,
                    triangulation_service, fetched, calls, response >>

ValidateRequest(r) ==
    /\ requests[r].pc = "start"
    /\ Advance(r, ValidateStep(Frame(requests, r)))

FetchRequest(r) ==
    /\ requests[r].pc = "validated"
    /\ LET q == Frame(requests, r)
       IN  Advance(r, FetchStep(q, point_set_client,
                                FetchWithSession(q.upstream, q.point_set_id)))

TriangulateRequest(r) ==
    /\ requests[r].pc = "fetched"
    /\ LET q == Frame(requests, r)
       IN  Advance(r, TriangulateStep(q,
                          ServiceTriangulate(triangulation_service,
                                             q.point_set_bytes)))

RespondRequest(r) ==
    /\ requests[r].pc = "triangulated"
    /\ Advance(r, RespondStep(Frame(requests, r)))

NextConcurrent ==
    \E r \in 1..NumRequests :
        \/ ValidateRequest(r)
        \/ FetchRequest(r)
        \/ TriangulateRequest(r)
        \/ RespondRequest(r)

SpecConcurrent == InitConcurrent /\ [][NextConcurrent]_vars

(***************************************************************************)
(* Properties of concurrent requests, checked under SpecConcurrent.        *)
(***************************************************************************)
\* The response request r gets when it is handled alone, with its
\* identifier and with the session answering what it answers to r.
Alone(r) ==
    get_triangulation(requests[r].point_set_id,
                      ClientFor(point_set_client, requests[r]),
                      triangulation_service).response

\* Every finished request has the response it gets alone.
ResponseAsAlone ==
    \A r \in 1..NumRequests :
        requests[r].pc = "done" => requests[r].response = Alone(r)

\* A step leaves what the calls were given as it was: the identifier, and
\* the fetched bytes and the engine's result once they are there.
InputsKept ==
    \A r \in 1..NumRequests :
        /\ requests'[r].point_set_id = requests[r].point_set_id
        /\ requests[r].pc \in { "fetched", "triangulated" }
               => requests'[r].point_set_bytes = requests[r].point_set_bytes
        /\ requests[r].pc = "triangulated"
               => requests'[r].result = requests[r].result
        /\ requests[r].pc = "done" => requests'[r] = requests[r]

\* C23: however the steps of concurrently handled requests interleave,
\* each request's response is the one it gets when handled alone with the
\* same identifier and the same upstream outcome, and no step changes the
\* identifier, the fetched bytes or the engine's result of any request.
C23_NoCrossRequestState == [](ResponseAsAlone) /\ [][InputsKept]_vars

\* Two requests with different identifiers and different upstream answers
\* are both finished, one answered 200 and the other 400.
C23_Witness ==
    /\ NumRequests >= 2
    /\ requests[1].pc = "done"
    /\ requests[2].pc = "done"
    /\ requests[1].point_set_id # requests[2].point_set_id
    /\ requests[1].upstream # requests[2].upstream
    /\ requests[1].response.ok
    /\ requests[1].response.val.status = 200
    /\ requests[2].response.ok
    /\ requests[2].response.val.status = 400

(***************************************************************************)
(* The errors of the point set encoder, checked under SpecPointSet.        *)
(***************************************************************************)
\* C24: whatever the sequence it is given, point_set_to_bytes returns
\* bytes or raises SerializationError: no error of another kind leaves it.
C24_OnlySerializationError ==
    producer = "point_set_to_bytes"
        => (enc.ok \/ enc.exc = "SerializationError")

(***************************************************************************)
(* The pipeline: a point set is triangulated, the mesh is encoded and      *)
(* decoded again; or its payload is what the upstream answers to a request *)
(* of an app that uses the algorithm module.  The point sets start with    *)
(* (0, 0) and (64, 0) * 2^-FracBits and go on with up to MaxLater points,  *)
(* among them points on that line, a duplicate, and points with an         *)
(* abscissa that is not a float32 value.                                   *)
(***************************************************************************)
MaxLater == 2

\* (2^24 + 1) * 2^-FracBits: 25 significant bits, float32 rounds it.
Wide == Canon(0, 2^24 + 1, -FracBits)

LaterPoints ==
    { GP(0, 64), GP(64, 64), GP(32, 0), GP(96, 0), GP(0, 0),
      << Wide, Canon(0, 64, -FracBits) >>, << Wide, Canon(0, 0, -FracBits) >> }

PipelinePointSets ==
    { << GP(0, 0), GP(64, 0) >> \o later :
          later \in SeqsUpTo(LaterPoints, MaxLater) }

\* Bytes the upstream sends after the payload.
Trailing == { << >>, << 222, 173 >>, << 0, 0, 0, 0 >> }

InitPipeline ==
    /\ pc = "start"
    /\ points \in PipelinePointSets
    /\ triangles = << >>
    /\ producer = "none"
    /\ enc = NoCall
    /\ data = << >>
    /\ wire = "none"
    /\ dec = NoCall
    /\ tri = NoCall
    /\ point_set_id
         = Hyphenated(Rep("a", 8), Rep("1", 4), Rep("4", 4), Rep("b", 4),
                      Rep("0", 12))
    /\ point_set_client = None
    /\ triangulation_service = None
    /\ fetched = NoCall
    /\ calls = << >>
    /\ response = NoCall
    /\ requests = << >>

\* triangulate(P)
PipelineTriangulate ==
    /\ pc = "start"
    /\ tri' = triangulate([list |-> points])
    /\ pc' = "triangulated"
    /\ UNCHANGED << points, triangles, producer, enc, data, wire, dec >>
    /\ UNCHANGED requestVars

\* triangles_to_bytes(P, triangulate(P))
PipelineEncode ==
    /\ pc = "triangulated"
    /\ tri.ok
    /\ triangles' = tri.val
    /\ enc' = triangles_to_bytes(points, tri.val)
    /\ producer' = "triangles_to_bytes"
    /\ pc' = "encoded"
    /\ UNCHANGED << points, data, wire, dec, tri >>
    /\ UNCHANGED requestVars

\* bytes_to_triangles of the payload
PipelineDecode ==
    /\ pc = "encoded"
    /\ enc.ok
    /\ data' = enc.val
    /\ wire' = "intact"
    /\ dec' = bytes_to_triangles(enc.val)
    /\ pc' = "decoded"
    /\ UNCHANGED << points, triangles, producer, enc, tri >>
    /\ UNCHANGED requestVars

\* A request to an app whose client gets 200 and the payload of P, with
\* or without bytes after it, from the upstream.
PipelineRequest ==
    /\ pc = "start"
    /\ enc' = point_set_to_bytes(points)
    /\ enc'.ok
    /\ producer' = "point_set_to_bytes"
    /\ \E t \in Trailing :
           /\ data' = enc'.val \o t
           /\ wire' = IF t = << >> THEN "intact" ELSE "extended"
    /\ point_set_client'
         = PointSetManagerClient(Ok(HttpResponse(200, data')))
    /\ LET handled == get_triangulation(point_set_id, point_set_client',
                                        triangulation_service)
       IN  /\ response' = handled.response
           /\ calls' = handled.calls
    /\ pc' = "served"
    /\ UNCHANGED << points, triangles, dec, tri, point_set_id,
                    triangulation_service, fetched, requests >>

NextPipeline ==
    \/ PipelineTriangulate
    \/ PipelineEncode
    \/ PipelineDecode
    \/ PipelineRequest

SpecPipeline == InitPipeline /\ [][NextPipeline]_vars

(***************************************************************************)
(* Properties of the pipeline, checked under SpecPipeline.                 *)
(***************************************************************************)
\* 4 + 8N + 4 + 12(N - 2)
FanMeshLength(n) == 4 + 8 * n + 4 + 12 * (n - 2)

\* The point set the upstream payload decodes to.
Upstream == ToFloat32Seq(points)

\* The request part: when the upstream payload decodes to a point set of N
\* points triangulate accepts, the response is 200 and its body is the
\* mesh of that point set, FanMeshLength(N) bytes long, whatever follows
\* the payload.
ServedMesh ==
    (pc = "served" /\ Validate(Upstream).ok)
        => /\ response.ok
           /\ response.val.status = 200
           /\ Len(response.val.body) = FanMeshLength(Len(points))
           /\ bytes_to_triangles(response.val.body)
                = Ok(<< Upstream, Fan(Len(points)) >>)

ServedWithTrailingBytes ==
    /\ pc = "served"
    /\ wire = "extended"
    /\ Len(data) = 40
    /\ Len(points) = 4
    /\ response.ok
    /\ response.val.status = 200
    /\ Len(response.val.body) = 64

(***************************************************************************)
(* What triangulate's acceptance depends on, checked under                 *)
(* SpecTriangulate.                                                        *)
(***************************************************************************)
\* Some point from index 2 on is off the line of points 0 and 1.
SomeOffLine(pts) ==
    \E i \in 3..Len(pts) : ~CrossBelowEpsilon(pts[1], pts[2], pts[i])

\* C26: triangulate accepts a point set exactly when it has 3 points or
\* more, no two equal points, and a point of index 2 or more that is not
\* colinear with points 0 and 1; the triples of the fan are not looked at:
\* a set whose points 0, 1, 2 are colinear and that has a later point off
\* their line is accepted and yields all its N - 2 triangles, the
\* zero-area triangle (0, 1, 2) among them.
C26_AcceptanceCriterion ==
    pc = "done"
        => /\ tri.ok <=> (Len(points) >= 3 /\ ~HasDuplicate(points)
                            /\ SomeOffLine(points))
           /\ (Len(points) >= 4 /\ ~HasDuplicate(points)
                 /\ CrossBelowEpsilon(points[1], points[2], points[3])
                 /\ SomeOffLine(points))
                  => /\ tri.ok
                     /\ Len(tri.val) = Len(points) - 2
                     /\ tri.val[1] = << 0, 1, 2 >>
                     /\ tri.val = [i \in 1..(Len(points) - 2)
                                     |-> << 0, i, i + 1 >>]

\* Four different points, the first three exactly on a line and the
\* fourth off it, have been accepted: two triangles, the first of area 0.
C26_Witness ==
    /\ pc = "done"
    /\ Len(points) = 4
    /\ ~HasDuplicate(points)
    /\ Cross(points[1], points[2], points[3]) = 0
    /\ ~CrossBelowEpsilon(points[1], points[2], points[4])
    /\ tri = Ok(<< << 0, 1, 2 >>, << 0, 2, 3 >> >>)

====
